---- MODULE Spec2Model ----
(***************************************************************************)
(* Model of the generic OIDC auth provider (package oidc) and of the       *)
(* Keycloak directory client (package keycloakoidc).                       *)
(*                                                                         *)
(* Go strings are modelled as sequences of one-character strings, so that  *)
(* strings.SplitN, strings.TrimPrefix and string concatenation are         *)
(* computed the way the code computes them.                                *)
(***************************************************************************)
EXTENDS Integers, Sequences, FiniteSets, TLC

VARIABLES
    pc,              \* LoginUser: the next statement of the running login
    config,          \* LoginUser: the *OIDCConfig in use (NoConfig while nil)
    err,             \* LoginUser: the local variable err
    oauth2Token,     \* LoginUser: the token-exchange response
    rawToken,        \* LoginUser: the token handed to the verifier
    claimInfo,       \* LoginUser: the decoded claims
    userPrincipal,   \* LoginUser: the local variable userPrincipal
    groupPrincipals, \* LoginUser: the local variable groupPrincipals
    userInfo,        \* LoginUser: the user-info response
    calls,           \* LoginUser: the calls made so far, in order
    ret,             \* LoginUser: what was returned to the caller
    built,           \* the principal last built, and what it was built from
    got,             \* the last call of GetPrincipal: its arguments and results
    group,           \* getSubGroups: the group record of the directory
    grown,           \* getSubGroups: how the record was put together
    subGroups,       \* getSubGroups: the result (NoResult before the call)
    search,          \* searchPrincipals: the arguments and results of the call
    resolved,        \* the last call of toPrincipalFromToken: arguments and result
    found,           \* the last call of SearchPrincipals: arguments and results
    derived,         \* the last call of getSearchURL: its argument and result
    lookup           \* getFromKeyCloakByID: the arguments and results of the call

loginVars == <<pc, config, err, oauth2Token, rawToken, userInfo, claimInfo,
               userPrincipal, groupPrincipals, calls, ret>>

resolverVars == <<built, got, resolved, found>>

groupVars == <<group, grown, subGroups>>

searchVars == <<search, derived, lookup>>

vars == <<loginVars, resolverVars, groupVars, searchVars>>

\* What the steps of a login leave alone.
notLogin == <<resolverVars, groupVars, searchVars>>

\* What the principal resolver leaves alone.
notResolver == <<loginVars, groupVars, searchVars>>

\* What the flattening of subgroups leaves alone.
notGroups == <<loginVars, resolverVars, searchVars>>

\* What a directory search leaves alone.
notSearch == <<loginVars, resolverVars, groupVars>>

----------------------------------------------------------------------------
(* Strings *)

EmptyString == <<>>

Name == <<"o", "i", "d", "c">>

UserType == <<"u", "s", "e", "r">>

GroupType == <<"g", "r", "o", "u", "p">>

Underscore == <<"_">>

SchemeSep == <<":", "/", "/">>

\* The nil error.
Nil == "nil"

----------------------------------------------------------------------------
(* Principals *)

ZeroPrincipal ==
    [Name |-> EmptyString, DisplayName |-> EmptyString, LoginName |-> EmptyString,
     PrincipalType |-> EmptyString, Provider |-> EmptyString,
     Me |-> FALSE, MemberOf |-> FALSE]

GetName == Name

\* userToPrincipal with the subject, not the email, as the fallback name.
userToPrincipalSubjectFallback(uinfo, info) ==
    LET displayName == IF info.Name = EmptyString THEN uinfo.Subject ELSE info.Name
    IN  [Name |-> GetName \o Underscore \o UserType \o SchemeSep \o uinfo.Subject,
         DisplayName |-> displayName,
         LoginName |-> uinfo.Email,
         PrincipalType |-> UserType,
         Provider |-> GetName,
         Me |-> FALSE, MemberOf |-> FALSE]

userToPrincipal(uinfo, info) ==
    LET displayName == IF info.Name = EmptyString THEN uinfo.Email ELSE info.Name
    IN  [Name |-> GetName \o Underscore \o UserType \o SchemeSep \o uinfo.Subject,
         DisplayName |-> displayName,
         LoginName |-> uinfo.Email,
         PrincipalType |-> UserType,
         Provider |-> GetName,
         Me |-> FALSE, MemberOf |-> FALSE]

groupToPrincipal(groupName) ==
    [Name |-> GetName \o Underscore \o GroupType \o SchemeSep \o groupName,
     DisplayName |-> groupName,
     LoginName |-> EmptyString,
     PrincipalType |-> GroupType,
     Provider |-> GetName,
     Me |-> FALSE, MemberOf |-> FALSE]

----------------------------------------------------------------------------
(* LoginUser: inputs *)

\* The longest group list a user-info response carries.
MaxGroups == 2

Subjects == {<<"a">>, <<"b">>}

DisplayNames == {EmptyString, <<"n">>}

Emails == {EmptyString, <<"a", "@", "b", ".", "c", "o", "m">>}

GroupNames == {<<"g">>, <<"h">>}

GroupLists == UNION {[1..n -> GroupNames] : n \in 0..MaxGroups}

AccessTokens == {<<"t">>}

AccessModes == {"unrestricted", "required"}

AllowLists == {<<>>, <<Name \o Underscore \o UserType \o SchemeSep \o <<"a">> >>}

NoConfig == [nil |-> TRUE]

Configs == [AccessMode : AccessModes, AllowedPrincipalIDs : AllowLists]

\* The user-info payloads, and whether the payload has the shape of
\* claimInfo (a payload of another shape does not decode into it).
Payloads == [sub : Subjects, name : DisplayNames, email : Emails,
             groups : GroupLists, decodes : BOOLEAN]

\* The token-exchange responses: whether the raw response carries an
\* id_token string and an access_token string, and the parsed AccessToken
\* (oauth2 fails the exchange when it is empty).
ExchangeResponses == [id_token : BOOLEAN, access_token : BOOLEAN,
                      AccessToken : AccessTokens]

NoToken == [nil |-> TRUE]

NoUserInfo == [nil |-> TRUE]

ZeroClaimInfo == [Subject |-> EmptyString, Name |-> EmptyString,
                  Email |-> EmptyString, Groups |-> <<>>]

NoRet == [pending |-> TRUE]

Call(fn, args, out) == [fn |-> fn, args |-> args, out |-> out]

\* A return statement of LoginUser or AuthenticateUser, at the given line.
Return(user, groups, token, e, line) ==
    /\ ret' = [user |-> user, groups |-> groups, token |-> token,
               err |-> e, line |-> line]
    /\ pc' = "done"

LoginInit ==
    /\ pc = "idle"
    /\ config = NoConfig
    /\ err = Nil
    /\ oauth2Token = NoToken
    /\ rawToken = EmptyString
    /\ userInfo = NoUserInfo
    /\ claimInfo = ZeroClaimInfo
    /\ userPrincipal = ZeroPrincipal
    /\ groupPrincipals = <<>>
    /\ calls = <<>>
    /\ ret = NoRet

----------------------------------------------------------------------------
(* LoginUser: steps *)

AuthenticateUser ==
    /\ pc = "idle"
    /\ \E ok \in BOOLEAN :
          IF ok
          THEN /\ pc' = "GetOIDCConfig"
               /\ calls' = <<Call("LoginUser", <<NoConfig>>, Nil)>>
               /\ UNCHANGED ret
          ELSE /\ Return(ZeroPrincipal, <<>>, EmptyString, "unexpected input type", 80)
               /\ UNCHANGED calls
    /\ UNCHANGED <<config, err, oauth2Token, rawToken, userInfo, claimInfo,
                   userPrincipal, groupPrincipals>>
    /\ UNCHANGED notLogin

LoginUser ==
    /\ pc = "idle"
    /\ \E c \in Configs \cup {NoConfig} :
          /\ config' = c
          /\ calls' = <<Call("LoginUser", <<c>>, Nil)>>
          /\ pc' = IF c = NoConfig THEN "GetOIDCConfig" ELSE "AddCertKeyToContext"
    /\ UNCHANGED <<err, oauth2Token, rawToken, userInfo, claimInfo,
                   userPrincipal, groupPrincipals, ret>>
    /\ UNCHANGED notLogin

GetOIDCConfigStep ==
    /\ pc = "GetOIDCConfig"
    /\ \/ /\ err' = "ConfigError"
          /\ calls' = Append(calls, Call("GetOIDCConfig", <<>>, "ConfigError"))
          /\ Return(userPrincipal, <<>>, EmptyString, "ConfigError", 94)
          /\ UNCHANGED config
       \/ \E c \in Configs :
             /\ config' = c
             /\ err' = Nil
             /\ calls' = Append(calls, Call("GetOIDCConfig", <<>>, Nil))
             /\ pc' = "AddCertKeyToContext"
             /\ UNCHANGED ret
    /\ UNCHANGED <<oauth2Token, rawToken, userInfo, claimInfo,
                   userPrincipal, groupPrincipals>>
    /\ UNCHANGED notLogin

\* A call whose only effect on LoginUser is to fail or not: on failure
\* LoginUser returns the error at the given line.
FallibleCall(at, fn, failure, line, next) ==
    /\ pc = at
    /\ \E e \in {Nil, failure} :
          /\ err' = e
          /\ calls' = Append(calls, Call(fn, <<>>, e))
          /\ IF e # Nil
             THEN Return(userPrincipal, groupPrincipals, EmptyString, e, line)
             ELSE pc' = next /\ UNCHANGED ret

AddCertKeyToContext ==
    /\ FallibleCall("AddCertKeyToContext", "AddCertKeyToContext", "TLSSetupError",
                    99, "NewProvider")
    /\ UNCHANGED <<config, oauth2Token, rawToken, userInfo, claimInfo,
                   userPrincipal, groupPrincipals>>
    /\ UNCHANGED notLogin

NewProvider ==
    /\ FallibleCall("NewProvider", "NewProvider", "DiscoveryError", 104, "Exchange")
    /\ UNCHANGED <<config, oauth2Token, rawToken, userInfo, claimInfo,
                   userPrincipal, groupPrincipals>>
    /\ UNCHANGED notLogin

Exchange ==
    /\ pc = "Exchange"
    /\ \/ /\ err' = "TokenExchangeError"
          /\ calls' = Append(calls, Call("Exchange", <<>>, "TokenExchangeError"))
          /\ Return(userPrincipal, groupPrincipals, EmptyString,
                    "TokenExchangeError", 120)
          /\ UNCHANGED oauth2Token
       \/ \E t \in ExchangeResponses :
             /\ oauth2Token' = t
             /\ err' = Nil
             /\ calls' = Append(calls, Call("Exchange", <<>>, Nil))
             /\ pc' = "ExtractToken"
             /\ UNCHANGED ret
    /\ UNCHANGED <<config, rawToken, userInfo, claimInfo,
                   userPrincipal, groupPrincipals>>
    /\ UNCHANGED notLogin

\* Lines 123-129: the id_token, else the access_token, else return err.
ExtractToken ==
    /\ pc = "ExtractToken"
    /\ IF oauth2Token.id_token
       THEN rawToken' = <<"i">> /\ pc' = "Verify" /\ UNCHANGED ret
       ELSE IF oauth2Token.access_token
            THEN rawToken' = oauth2Token.AccessToken /\ pc' = "Verify" /\ UNCHANGED ret
            ELSE /\ Return(userPrincipal, groupPrincipals, EmptyString, err, 127)
                 /\ UNCHANGED rawToken
    /\ UNCHANGED <<config, err, oauth2Token, userInfo, claimInfo,
                   userPrincipal, groupPrincipals, calls>>
    /\ UNCHANGED notLogin

\* Verify with its error dropped: the login goes on to the user info.
VerifyErrorIgnored ==
    /\ pc = "Verify"
    /\ \E e \in {Nil, "TokenVerificationError"} :
          /\ err' = e
          /\ calls' = Append(calls, Call("Verify", <<>>, e))
          /\ pc' = "UserInfo"
    /\ UNCHANGED <<config, oauth2Token, rawToken, userInfo, claimInfo,
                   userPrincipal, groupPrincipals, ret>>
    /\ UNCHANGED notLogin

Verify ==
    /\ FallibleCall("Verify", "Verify", "TokenVerificationError", 134, "UserInfo")
    /\ UNCHANGED <<config, oauth2Token, rawToken, userInfo, claimInfo,
                   userPrincipal, groupPrincipals>>
    /\ UNCHANGED notLogin

UserInfo ==
    /\ pc = "UserInfo"
    /\ \/ /\ err' = "UserInfoError"
          /\ calls' = Append(calls, Call("UserInfo", <<>>, "UserInfoError"))
          /\ Return(userPrincipal, groupPrincipals, EmptyString, "UserInfoError", 138)
          /\ UNCHANGED userInfo
       \/ \E p \in Payloads :
             /\ userInfo' = [Subject |-> p.sub, Email |-> p.email, claims |-> p]
             /\ err' = Nil
             /\ calls' = Append(calls, Call("UserInfo", <<>>, Nil))
             /\ pc' = "Claims"
             /\ UNCHANGED ret
    /\ UNCHANGED <<config, oauth2Token, rawToken, claimInfo,
                   userPrincipal, groupPrincipals>>
    /\ UNCHANGED notLogin

\* Line 140: the error of Claims is a variable of the if statement alone.
Claims ==
    /\ pc = "Claims"
    /\ IF ~userInfo.claims.decodes
       THEN /\ calls' = Append(calls, Call("Claims", <<>>, "ClaimDecodeError"))
            /\ Return(userPrincipal, groupPrincipals, EmptyString,
                      "ClaimDecodeError", 141)
            /\ UNCHANGED claimInfo
       ELSE /\ claimInfo' = [Subject |-> userInfo.claims.sub,
                             Name |-> userInfo.claims.name,
                             Email |-> userInfo.claims.email,
                             Groups |-> userInfo.claims.groups]
            /\ calls' = Append(calls, Call("Claims", <<>>, Nil))
            /\ pc' = "BuildPrincipals"
            /\ UNCHANGED ret
    /\ UNCHANGED <<config, err, oauth2Token, rawToken, userInfo,
                   userPrincipal, groupPrincipals>>
    /\ UNCHANGED notLogin

\* BuildPrincipals followed at once by the return of line 161, the access
\* check left out.
BuildPrincipalsUngated ==
    /\ pc = "BuildPrincipals"
    /\ userPrincipal' = [userToPrincipal(userInfo, claimInfo) EXCEPT !.Me = TRUE]
    /\ groupPrincipals' =
          [i \in 1..Len(claimInfo.Groups) |->
              [groupToPrincipal(claimInfo.Groups[i]) EXCEPT !.MemberOf = TRUE]]
    /\ Return(userPrincipal', groupPrincipals', oauth2Token.AccessToken, Nil, 161)
    /\ UNCHANGED <<config, err, oauth2Token, rawToken, userInfo, claimInfo, calls>>
    /\ UNCHANGED notLogin

\* Lines 144-152.
BuildPrincipals ==
    /\ pc = "BuildPrincipals"
    /\ userPrincipal' = [userToPrincipal(userInfo, claimInfo) EXCEPT !.Me = TRUE]
    /\ groupPrincipals' =
          [i \in 1..Len(claimInfo.Groups) |->
              [groupToPrincipal(claimInfo.Groups[i]) EXCEPT !.MemberOf = TRUE]]
    /\ pc' = "CheckAccess"
    /\ UNCHANGED <<config, err, oauth2Token, rawToken, userInfo, claimInfo,
                   calls, ret>>
    /\ UNCHANGED notLogin

\* The outcomes of UserMGR.CheckAccess: allowed or not, or an error.
CheckAccessOutcomes ==
    {[allowed |-> TRUE, err |-> Nil], [allowed |-> FALSE, err |-> Nil],
     [allowed |-> FALSE, err |-> "PolicyError"]}

\* AccessReturn without the check of allowed (lines 158-160 left out).
AccessReturnNoDenial(out) ==
    IF out.err # Nil
    THEN Return(userPrincipal, groupPrincipals, EmptyString, out.err, 156)
    ELSE Return(userPrincipal, groupPrincipals, oauth2Token.AccessToken, Nil, 161)

\* Lines 155-161: what LoginUser returns on CheckAccess's answer.
AccessReturn(out) ==
    IF out.err # Nil
    THEN Return(userPrincipal, groupPrincipals, EmptyString, out.err, 156)
    ELSE IF ~out.allowed
         THEN Return(userPrincipal, groupPrincipals, EmptyString, "Unauthorized", 159)
         ELSE Return(userPrincipal, groupPrincipals, oauth2Token.AccessToken, Nil, 161)

CheckAccess ==
    /\ pc = "CheckAccess"
    /\ \E out \in CheckAccessOutcomes :
          /\ calls' = Append(calls,
                Call("CheckAccess",
                     <<config.AccessMode, config.AllowedPrincipalIDs,
                       userPrincipal.Name, groupPrincipals>>, out))
          /\ err' = out.err
          /\ AccessReturn(out)
    /\ UNCHANGED <<config, oauth2Token, rawToken, userInfo, claimInfo,
                   userPrincipal, groupPrincipals>>
    /\ UNCHANGED notLogin

LoginNext ==
    \/ AuthenticateUser
    \/ LoginUser
    \/ GetOIDCConfigStep
    \/ AddCertKeyToContext
    \/ NewProvider
    \/ Exchange
    \/ ExtractToken
    \/ Verify
    \/ UserInfo
    \/ Claims
    \/ BuildPrincipals
    \/ CheckAccess

----------------------------------------------------------------------------
(* Principal resolver: strings *)

\* strings.Index for a one-character separator: 0 when absent.
IndexOf(s, c) ==
    IF \E i \in 1..Len(s) : s[i] = c
    THEN CHOOSE i \in 1..Len(s) : s[i] = c /\ \A j \in 1..(i - 1) : s[j] # c
    ELSE 0

\* The cut at the last separator instead of the first.
SplitAtLast(s, c) ==
    IF \E i \in 1..Len(s) : s[i] = c
    THEN LET i == CHOOSE k \in 1..Len(s) :
                      s[k] = c /\ \A j \in (k + 1)..Len(s) : s[j] # c
         IN  <<SubSeq(s, 1, i - 1), SubSeq(s, i + 1, Len(s))>>
    ELSE <<s>>

\* strings.SplitN(s, c, 2) for a one-character separator.
SplitN2(s, c) ==
    LET i == IndexOf(s, c)
    IN  IF i = 0 THEN <<s>> ELSE <<SubSeq(s, 1, i - 1), SubSeq(s, i + 1, Len(s))>>

HasPrefix(s, prefix) ==
    Len(s) >= Len(prefix) /\ SubSeq(s, 1, Len(prefix)) = prefix

\* strings.TrimPrefix
TrimPrefix(s, prefix) ==
    IF HasPrefix(s, prefix) THEN SubSeq(s, Len(prefix) + 1, Len(s)) ELSE s

----------------------------------------------------------------------------
(* Principal resolver: operations *)

\* IsThisUserMe by the name alone.
IsThisUserMeByName(me, other) == me.Name = other.Name

IsThisUserMe(me, other) ==
    /\ me.Name = other.Name
    /\ me.LoginName = other.LoginName
    /\ me.PrincipalType = other.PrincipalType

\* token is never nil here: GetPrincipal passes the address of its argument.
\* isMemberOf is the answer of TokenMGR.IsMemberOf(token, princ).
toPrincipalFromToken(principalType, princ, token, isMemberOf) ==
    IF principalType = UserType
    THEN LET me == IsThisUserMe(token.UserPrincipal,
                                [princ EXCEPT !.PrincipalType = UserType])
         IN  [princ EXCEPT
                 !.PrincipalType = UserType,
                 !.Me = me,
                 !.LoginName = IF me THEN token.UserPrincipal.LoginName ELSE @,
                 !.DisplayName = IF me THEN token.UserPrincipal.DisplayName ELSE @]
    ELSE [princ EXCEPT !.PrincipalType = GroupType, !.MemberOf = isMemberOf]

\* SearchPrincipals with an empty kind left empty.
SearchPrincipalsNoDefault(searchValue, principalType) ==
    << [Name |-> GetName \o Underscore \o principalType \o SchemeSep \o searchValue,
        DisplayName |-> searchValue,
        LoginName |-> searchValue,
        PrincipalType |-> principalType,
        Provider |-> GetName,
        Me |-> FALSE, MemberOf |-> FALSE] >>

\* The principals SearchPrincipals returns; its error is always nil.
SearchPrincipals(searchValue, principalType) ==
    LET pt == IF principalType = EmptyString THEN UserType ELSE principalType
    IN  << [Name |-> GetName \o Underscore \o pt \o SchemeSep \o searchValue,
            DisplayName |-> searchValue,
            LoginName |-> searchValue,
            PrincipalType |-> pt,
            Provider |-> GetName,
            Me |-> FALSE, MemberOf |-> FALSE] >>

\* GetPrincipal: the principal and the error it returns, with the
\* principalType and externalID it parsed out of principalID.
GetPrincipal(principalID, token, isMemberOf) ==
    LET parts == SplitN2(principalID, ":")
        failed(e, pt, ext) ==
            [p |-> ZeroPrincipal, err |-> e, principalType |-> pt, externalID |-> ext]
    IN  IF Len(parts) # 2
        THEN failed("invalid id", EmptyString, EmptyString)
        ELSE
        LET externalID == TrimPrefix(parts[2], <<"/", "/">>)
            parts2 == SplitN2(parts[1], "_")
        IN  IF Len(parts2) # 2
            THEN failed("invalid id", EmptyString, externalID)
            ELSE
            LET principalType == parts2[2]
            IN  IF externalID = EmptyString /\ principalType = EmptyString
                THEN failed("invalid id", principalType, externalID)
                ELSE IF principalType # UserType /\ principalType # GroupType
                THEN failed("invalid principal type", principalType, externalID)
                ELSE
                LET p == IF principalID = UserType
                         THEN [Name |-> principalType \o SchemeSep \o externalID,
                               DisplayName |-> externalID,
                               LoginName |-> externalID,
                               PrincipalType |-> UserType,
                               Provider |-> GetName,
                               Me |-> FALSE, MemberOf |-> FALSE]
                         ELSE groupToPrincipal(externalID)
                IN  [p |-> toPrincipalFromToken(principalType, p, token, isMemberOf),
                     err |-> Nil,
                     principalType |-> principalType,
                     externalID |-> externalID]

----------------------------------------------------------------------------
(* Principal resolver: inputs and calls *)

\* The longest external id, in characters.
MaxExtLen == 3

\* The characters of an external id: a letter and the three separators of
\* a principal id.
ExtChars == {"a", ":", "_", "/"}

ExternalIDs == UNION {[1..n -> ExtChars] : n \in 0..MaxExtLen}

\* Identifiers of every shape: with and without a provider name, the '_',
\* a kind, the "://" (whole or in part) and an external id.
RawIDs ==
    {prov \o sep1 \o kind \o sep2 \o ext :
        prov \in {EmptyString, Name},
        sep1 \in {EmptyString, Underscore},
        kind \in {EmptyString, UserType, GroupType, <<"x">>},
        sep2 \in {EmptyString, <<":">>, SchemeSep},
        ext \in ExternalIDs}
    \cup {<<"g", "a", "r", "b", "a", "g", "e">>,
          Name \o Underscore \o UserType \o SchemeSep
              \o <<"a", "b", "c", "1", "2", "3">>}

\* The caller's token: the user principal a login gave it.
Tokens ==
    {[UserPrincipal |->
        [userToPrincipal([Subject |-> s,
                          Email |-> <<"a", "@", "b", ".", "c", "o", "m">>],
                         [Name |-> <<"n">>]) EXCEPT !.Me = TRUE]] : s \in Subjects}

NoBuilt == [none |-> TRUE]

NoGot == [none |-> TRUE]

NoResolved == [called |-> FALSE]

NoFound == [called |-> FALSE]

\* The principals toPrincipalFromToken is handed: those the provider builds
\* for users, for groups and for searches, and the caller's own.
Principals ==
    {userToPrincipal([Subject |-> sub, Email |-> email], [Name |-> name]) :
        sub \in Subjects, email \in Emails, name \in DisplayNames}
    \cup {groupToPrincipal(groupName) : groupName \in GroupNames}
    \cup {SearchPrincipals(sub, kind)[1] : sub \in Subjects, kind \in {UserType, GroupType}}
    \cup {token.UserPrincipal : token \in Tokens}

ResolverInit ==
    /\ built = NoBuilt
    /\ got = NoGot
    /\ resolved = NoResolved
    /\ found = NoFound

Built(fn, kind, externalID, p) ==
    [fn |-> fn, kind |-> kind, externalID |-> externalID, p |-> p]

\* One call per behaviour: the provider keeps no state between calls.
UserToPrincipal ==
    /\ built = NoBuilt /\ got = NoGot /\ resolved = NoResolved
    /\ \E sub \in ExternalIDs, name \in DisplayNames, email \in Emails :
          built' = Built("userToPrincipal", UserType, sub,
                         userToPrincipal([Subject |-> sub, Email |-> email],
                                         [Name |-> name]))
    /\ got' = NoGot
    /\ UNCHANGED <<resolved, found>>
    /\ UNCHANGED notResolver

GroupToPrincipal ==
    /\ built = NoBuilt /\ got = NoGot /\ resolved = NoResolved
    /\ \E groupName \in ExternalIDs :
          built' = Built("groupToPrincipal", GroupType, groupName,
                         groupToPrincipal(groupName))
    /\ got' = NoGot
    /\ UNCHANGED <<resolved, found>>
    /\ UNCHANGED notResolver

\* The kinds a search is asked for: none, the two the provider knows, and
\* one it does not.
PrincipalTypes == {EmptyString, UserType, GroupType, <<"x">>}

SearchPrincipalsCall ==
    /\ built = NoBuilt /\ got = NoGot /\ resolved = NoResolved
    /\ \E searchValue \in ExternalIDs, principalType \in PrincipalTypes :
          /\ built' = Built("SearchPrincipals",
                            IF principalType = EmptyString THEN UserType ELSE principalType,
                            searchValue,
                            SearchPrincipals(searchValue, principalType)[1])
          /\ found' = [called |-> TRUE, searchValue |-> searchValue,
                       principalType |-> principalType,
                       principals |-> SearchPrincipals(searchValue, principalType),
                       err |-> Nil]
    /\ got' = NoGot
    /\ UNCHANGED resolved
    /\ UNCHANGED notResolver

Got(principalID, token, isMemberOf) ==
    [id |-> principalID, token |-> token, isMemberOf |-> isMemberOf,
     res |-> GetPrincipal(principalID, token, isMemberOf)]

\* GetPrincipal on the id of the principal last built.
GetPrincipalOfBuilt ==
    /\ built # NoBuilt /\ got = NoGot
    /\ \E token \in Tokens, isMemberOf \in BOOLEAN :
          got' = Got(built.p.Name, token, isMemberOf)
    /\ UNCHANGED <<built, resolved, found>>
    /\ UNCHANGED notResolver

\* GetPrincipal on an identifier of any shape.
GetPrincipalOfRaw ==
    /\ built = NoBuilt /\ got = NoGot /\ resolved = NoResolved
    /\ \E principalID \in RawIDs, token \in Tokens, isMemberOf \in BOOLEAN :
          got' = Got(principalID, token, isMemberOf)
    /\ UNCHANGED <<built, resolved, found>>
    /\ UNCHANGED notResolver

\* toPrincipalFromToken on a principal, with the caller's token and the
\* answer of TokenMGR.IsMemberOf.
ToPrincipalFromToken ==
    /\ built = NoBuilt /\ got = NoGot /\ resolved = NoResolved
    /\ \E principalType \in {UserType, GroupType}, princ \in Principals,
          token \in Tokens, isMemberOf \in BOOLEAN :
          resolved' = [called |-> TRUE, principalType |-> principalType,
                       princ |-> princ, token |-> token, isMemberOf |-> isMemberOf,
                       out |-> toPrincipalFromToken(principalType, princ, token,
                                                    isMemberOf)]
    /\ UNCHANGED <<built, got, found>>
    /\ UNCHANGED notResolver

ResolverNext ==
    \/ ToPrincipalFromToken
    \/ UserToPrincipal
    \/ GroupToPrincipal
    \/ SearchPrincipalsCall
    \/ GetPrincipalOfBuilt
    \/ GetPrincipalOfRaw

----------------------------------------------------------------------------
(* Keycloak client: subgroups *)

\* The upper limit on the subgroups looped through at one level.
SubgroupCap == 100

MakeGroup(id, name, subgroups) == [ID |-> id, Name |-> name, Subgroups |-> subgroups]

\* The loops below run over the subgroups in order; the range is halved at
\* each step so that a list of SubgroupCap entries is walked without a
\* recursion as deep as the list is long. The result is the concatenation,
\* in order, of what each iteration appends.

\* The loop of getSubGroups without its upper limit.
RECURSIVE getSubGroupsUncapped(_)
getSubGroupsUncapped(g) ==
    LET iteration(i) == <<g.Subgroups[i]>> \o getSubGroupsUncapped(g.Subgroups[i])
        RECURSIVE loop(_, _)
        loop(lo, hi) ==
            IF lo > hi THEN <<>>
            ELSE IF lo = hi THEN iteration(lo)
            ELSE loop(lo, (lo + hi) \div 2) \o loop((lo + hi) \div 2 + 1, hi)
    IN  loop(1, Len(g.Subgroups))

\* getSubGroups with each subgroup after its descendants.
RECURSIVE getSubGroupsPostOrder(_)
getSubGroupsPostOrder(g) ==
    LET iteration(i) ==
            IF i - 1 < SubgroupCap
            THEN getSubGroupsPostOrder(g.Subgroups[i]) \o <<g.Subgroups[i]>>
            ELSE <<>>
        RECURSIVE loop(_, _)
        loop(lo, hi) ==
            IF lo > hi THEN <<>>
            ELSE IF lo = hi THEN iteration(lo)
            ELSE loop(lo, (lo + hi) \div 2) \o loop((lo + hi) \div 2 + 1, hi)
    IN  loop(1, Len(g.Subgroups))

\* getSubGroups: the loop index of the code is i - 1.
RECURSIVE getSubGroups(_)
getSubGroups(g) ==
    LET iteration(i) ==
            IF i - 1 < SubgroupCap
            THEN <<g.Subgroups[i]>> \o getSubGroups(g.Subgroups[i])
            ELSE <<>>
        RECURSIVE loop(_, _)
        loop(lo, hi) ==
            IF lo > hi THEN <<>>
            ELSE IF lo = hi THEN iteration(lo)
            ELSE loop(lo, (lo + hi) \div 2) \o loop((lo + hi) \div 2 + 1, hi)
    IN  loop(1, Len(g.Subgroups))

----------------------------------------------------------------------------
(* Keycloak client: the group records flattened *)

\* How many subgroups are added one at a time.
MaxAdds == 3

\* The id and name of the n-th subgroup added: ids repeat in the data.
Label(n) == IF n % 2 = 1 THEN <<1, <<"g">> >> ELSE <<2, <<"h">> >>

Leaf(label) == MakeGroup(label[1], label[2], <<>>)

RECURSIVE NodeAt(_, _)
NodeAt(g, path) ==
    IF path = <<>> THEN g ELSE NodeAt(g.Subgroups[Head(path)], Tail(path))

\* g with the group at path replaced by new.
RECURSIVE ReplaceAt(_, _, _)
ReplaceAt(g, path, new) ==
    IF path = <<>>
    THEN new
    ELSE [g EXCEPT !.Subgroups[Head(path)] = ReplaceAt(@, Tail(path), new)]

\* The places a subgroup is added at: the group itself and its descendants
\* at the start of a list and on both sides of the cap.
GrowIndexes == {1, 2, SubgroupCap, SubgroupCap + 1}

RECURSIVE GrowPaths(_)
GrowPaths(g) ==
    {<<>>} \cup
    UNION {{<<i>> \o q : q \in GrowPaths(g.Subgroups[i])} :
              i \in GrowIndexes \cap DOMAIN g.Subgroups}

NoResult == [returned |-> FALSE, groups |-> <<>>]

GroupsInit ==
    /\ group = MakeGroup(0, <<"r">>, <<>>)
    /\ grown = [adds |-> 0, filled |-> FALSE]
    /\ subGroups = NoResult

\* The directory holds one more subgroup, at the end of a list.
AddSubgroup ==
    /\ subGroups = NoResult
    /\ grown.adds < MaxAdds
    /\ \E path \in GrowPaths(group) :
          LET node == NodeAt(group, path)
              label == Label(grown.adds + 1)
          IN  group' = ReplaceAt(group, path,
                          [node EXCEPT !.Subgroups = Append(@, Leaf(label))])
    /\ grown' = [grown EXCEPT !.adds = @ + 1]
    /\ UNCHANGED subGroups
    /\ UNCHANGED notGroups

\* One list of the record is filled up to exactly as many subgroups as the
\* cap; the subgroups added after that take it past the cap.
FillSubgroups ==
    /\ subGroups = NoResult
    /\ ~grown.filled
    /\ \E path \in GrowPaths(group) :
          LET node == NodeAt(group, path)
              n == Len(node.Subgroups)
              label == Label(2)
          IN  /\ n < SubgroupCap
              /\ group' = ReplaceAt(group, path,
                     [node EXCEPT !.Subgroups =
                         [i \in 1..SubgroupCap |-> IF i <= n THEN @[i] ELSE Leaf(label)]])
    /\ grown' = [grown EXCEPT !.filled = TRUE]
    /\ UNCHANGED subGroups
    /\ UNCHANGED notGroups

GetSubGroups ==
    /\ subGroups = NoResult
    /\ subGroups' = [returned |-> TRUE, groups |-> getSubGroups(group)]
    /\ UNCHANGED <<group, grown>>
    /\ UNCHANGED notGroups

GroupsNext ==
    \/ AddSubgroup
    \/ FillSubgroups
    \/ GetSubGroups

----------------------------------------------------------------------------
(* Keycloak client: the search URL *)

AuthMarker == <<"/", "a", "u", "t", "h", "/">>

AdminSegment == <<"a", "d", "m", "i", "n", "/">>

\* strings.Index: the first place sep starts at in s, 0 when there is none.
Index(s, sep) ==
    LET starts == {i \in 1..(Len(s) - Len(sep) + 1) : SubSeq(s, i, i + Len(sep) - 1) = sep}
    IN  IF starts = {} THEN 0 ELSE CHOOSE i \in starts : \A j \in starts : i <= j

\* strings.SplitAfter: s cut after each sep, sep kept at the end of a part.
RECURSIVE SplitAfter(_, _)
SplitAfter(s, sep) ==
    LET m == Index(s, sep)
    IN  IF m = 0
        THEN <<s>>
        ELSE <<SubSeq(s, 1, m + Len(sep) - 1)>>
                 \o SplitAfter(SubSeq(s, m + Len(sep), Len(s)), sep)

\* getSearchURL with "/auth/" taken out of the first part.
getSearchURLMarkerReplaced(issuer) ==
    LET splitIssuer == SplitAfter(issuer, AuthMarker)
    IN  IF Len(splitIssuer) < 2
        THEN [panicked |-> TRUE, url |-> EmptyString]
        ELSE [panicked |-> FALSE,
              url |-> SubSeq(splitIssuer[1], 1, Len(splitIssuer[1]) - Len(AuthMarker))
                          \o <<"/">> \o AdminSegment \o splitIssuer[2]]

\* getSearchURL: splitIssuer[1] is out of range, and the function panics,
\* when the issuer holds no "/auth/"; its error is always nil.
getSearchURL(issuer) ==
    LET splitIssuer == SplitAfter(issuer, AuthMarker)
    IN  IF Len(splitIssuer) < 2
        THEN [panicked |-> TRUE, url |-> EmptyString]
        ELSE [panicked |-> FALSE, url |-> splitIssuer[1] \o AdminSegment \o splitIssuer[2]]

\* URLEncoded: url.Parse and String() give back a string of the characters
\* used here (letters, '/', '?', '=').
URLEncoded(str) == str

----------------------------------------------------------------------------
(* Keycloak client: requests *)

NoError == [msg |-> "nil", status |-> 0]

Error(msg) == [msg |-> msg, status |-> 0]

\* newClient: GetClientWithCertKey is called, and may fail, only when the
\* config has both a certificate and a private key.
UsesCertKey(cfg) == cfg.Certificate # EmptyString /\ cfg.PrivateKey # EmptyString

\* getFromKeyCloak, given what the HTTP exchange does: (b, statusCode, err),
\* or a panic when Do fails and gives no response (resp.StatusCode, line 176).
getFromKeyCloak(r) ==
    CASE r.kind = "clientError" ->
           [panicked |-> FALSE, b |-> [valid |-> FALSE, items |-> <<>>],
            statusCode |-> 500, err |-> Error("client")]
      [] r.kind = "requestError" ->
           [panicked |-> FALSE, b |-> [valid |-> FALSE, items |-> <<>>],
            statusCode |-> 500, err |-> Error("request")]
      [] r.kind = "doPanic" ->
           [panicked |-> TRUE, b |-> [valid |-> FALSE, items |-> <<>>],
            statusCode |-> 0, err |-> Error("transport")]
      [] r.kind = "doError" ->
           [panicked |-> FALSE, b |-> [valid |-> FALSE, items |-> <<>>],
            statusCode |-> r.status, err |-> Error("transport")]
      [] r.kind = "response" ->
           [panicked |-> FALSE, b |-> r.body, statusCode |-> r.status,
            err |-> IF r.status \in {200, 201}
                    THEN NoError
                    ELSE IF r.readErr THEN Error("read") ELSE NoError]

----------------------------------------------------------------------------
(* Keycloak client: searchPrincipals *)

Account(id, username, name, type) ==
    [ID |-> id, Username |-> username, Name |-> name, Type |-> type]

Finished(accounts, e, exchanges) ==
    [panicked |-> FALSE, accounts |-> accounts, err |-> e, exchanges |-> exchanges]

Panicked(exchanges) ==
    [panicked |-> TRUE, accounts |-> <<>>, err |-> NoError, exchanges |-> exchanges]

Exchanged(endpoint, url, r) == [endpoint |-> endpoint, url |-> url, resp |-> r]

\* A 401 answered with the accounts found so far.
Unauthorized401KeepsAccounts(accounts, exchanges) == Finished(accounts, NoError, exchanges)

\* Lines 63-65 and 85-87: return nil, nil.
Unauthorized401(accounts, exchanges) == Finished(<<>>, NoError, exchanges)

SearchURL(sURL, type, searchTerm) ==
    URLEncoded(sURL \o <<"/">> \o type \o <<"s", "?", "s", "e", "a", "r", "c", "h", "=">>
                   \o searchTerm)

\* The accounts of the groups found, without their subgroups.
GroupAccountsTopOnly(groups) ==
    [i \in 1..Len(groups) |->
        Account(groups[i].ID, EmptyString, groups[i].Name, GroupType)]

\* The accounts of the groups found: each group, then its flattened subgroups.
GroupAccounts(groups) ==
    LET RECURSIVE loop(_)
        loop(i) ==
            IF i > Len(groups)
            THEN <<>>
            ELSE LET g == groups[i]
                     subs == getSubGroups(g)
                 IN  <<Account(g.ID, EmptyString, g.Name, GroupType)>>
                     \o [k \in 1..Len(subs) |->
                            Account(subs[k].ID, EmptyString, subs[k].Name, GroupType)]
                     \o loop(i + 1)
    IN  loop(1)

\* Lines 79-104: the groups search, with the accounts found so far.
SearchGroups(accounts, exchanges, sURL, searchTerm, rG) ==
    LET got2 == getFromKeyCloak(rG)
        ex == Append(exchanges, Exchanged("groups", SearchURL(sURL, GroupType, searchTerm), rG))
    IN  IF got2.panicked THEN Panicked(ex)
        ELSE IF got2.statusCode = 401 THEN Unauthorized401(accounts, ex)
        ELSE IF got2.err # NoError THEN Finished(accounts, got2.err, ex)
        ELSE IF ~got2.b.valid THEN Finished(accounts, Error("unmarshal"), ex)
        ELSE Finished(accounts \o GroupAccounts(got2.b.items), NoError, ex)

\* Lines 57-78: the users search. returned says that searchPrincipals
\* returned (or panicked) here; otherwise it goes on with the accounts.
SearchUsers(sURL, searchTerm, rU) ==
    LET got1 == getFromKeyCloak(rU)
        search1 == SearchURL(sURL, UserType, searchTerm)
        ex == <<Exchanged("users", search1, rU)>>
    IN  IF got1.panicked THEN [returned |-> TRUE, out |-> Panicked(ex)]
        ELSE IF got1.statusCode = 401
        THEN [returned |-> TRUE, out |-> Unauthorized401(<<>>, ex)]
        ELSE IF got1.err # NoError
        THEN [returned |-> TRUE,
              out |-> Finished(<<>>, [msg |-> "GET request failed",
                                      status |-> got1.statusCode], ex)]
        ELSE IF ~got1.b.valid
        THEN [returned |-> TRUE, out |-> Finished(<<>>, Error("unmarshal"), ex)]
        ELSE [returned |-> FALSE,
              out |-> Finished([k \in 1..Len(got1.b.items) |->
                                   [got1.b.items[k] EXCEPT !.Type = UserType]],
                               NoError, ex)]

\* searchPrincipals, given what the users exchange and the groups exchange
\* do if they are made.
searchPrincipals(searchTerm, principalType, cfg, rU, rG) ==
    LET s == getSearchURL(cfg.Issuer)
    IN  IF s.panicked
        THEN Panicked(<<>>)
        ELSE
        LET u == IF principalType = EmptyString \/ principalType = UserType
                 THEN SearchUsers(s.url, searchTerm, rU)
                 ELSE [returned |-> FALSE, out |-> Finished(<<>>, NoError, <<>>)]
        IN  IF u.returned
            THEN u.out
            ELSE IF principalType = EmptyString \/ principalType = GroupType
            THEN SearchGroups(u.out.accounts, u.out.exchanges, s.url, searchTerm, rG)
            ELSE u.out

----------------------------------------------------------------------------
(* Keycloak client: getFromKeyCloakByID *)

\* account{}
ZeroAccount == Account(0, EmptyString, EmptyString, EmptyString)

Looked(account, e, exchanges) ==
    [panicked |-> FALSE, account |-> account, err |-> e, exchanges |-> exchanges]

LookupPanicked(exchanges) ==
    [panicked |-> TRUE, account |-> ZeroAccount, err |-> NoError,
     exchanges |-> exchanges]

\* getFromKeyCloakByID, given what the exchange does if it is made. The
\* branch of line 124 is never taken: the error of getSearchURL is always
\* nil. A body that is no JSON leaves searchResult as declared.
getFromKeyCloakByID(principalID, searchType, cfg, r) ==
    LET s == getSearchURL(cfg.Issuer)
    IN  IF s.panicked
        THEN LookupPanicked(<<>>)
        ELSE
        LET search1 == URLEncoded(s.url \o <<"/">> \o searchType \o <<"/">> \o principalID)
            got1 == getFromKeyCloak(r)
            ex == <<Exchanged(searchType, search1, r)>>
        IN  IF got1.panicked THEN LookupPanicked(ex)
            ELSE IF got1.err # NoError
            THEN Looked(ZeroAccount, [msg |-> "GET request failed",
                                      status |-> got1.statusCode], ex)
            ELSE IF ~got1.b.valid
            THEN Looked(ZeroAccount, Error("unmarshal"), ex)
            ELSE Looked(got1.b.items[1], NoError, ex)

----------------------------------------------------------------------------
(* Keycloak client: inputs and calls *)

\* The longest list of users, and of groups, a search answers with.
MaxHits == 2

Issuers ==
    {<<"h">> \o AuthMarker \o <<"r">>,
     <<"h", "/", "r">>,
     <<"h">> \o AuthMarker \o <<"r">> \o AuthMarker \o <<"x">>}

KeycloakConfigs ==
    {[Issuer |-> i, Certificate |-> ck, PrivateKey |-> ck] :
        i \in Issuers, ck \in {EmptyString, <<"k">>}}

SearchTerms == {<<"a">>}

SearchKinds == {EmptyString, UserType, GroupType}

Statuses == {200, 201, 204, 401, 500}

UserRecords == {Account(1, <<"u">>, <<"n">>, EmptyString),
                Account(2, <<"v">>, EmptyString, EmptyString)}

GroupRecords ==
    {MakeGroup(1, <<"g">>, <<>>),
     MakeGroup(2, <<"h">>, <<MakeGroup(3, <<"i">>, <<MakeGroup(1, <<"g">>, <<>>)>>),
                            MakeGroup(4, <<"j">>, <<>>)>>)}

ListsOf(S) == UNION {[1..n -> S] : n \in 0..MaxHits}

\* A body: the JSON array it holds, or no JSON array at all.
Bodies(S) == {[valid |-> FALSE, items |-> <<>>]} \cup [valid : {TRUE}, items : ListsOf(S)]

\* What an exchange with the directory does: the client or the request
\* cannot be made, Do fails with or without a response, or a response
\* arrives, whose body is read with or without an error.
Exchanges(cfg, S) ==
    [kind : {"response"}, status : Statuses, body : Bodies(S), readErr : BOOLEAN]
    \cup {[kind |-> "requestError"], [kind |-> "doPanic"],
          [kind |-> "doError", status |-> 302]}
    \cup (IF UsesCertKey(cfg) THEN {[kind |-> "clientError"]} ELSE {})

\* The issuers getSearchURL is tried on: with no "/auth/", with one, with
\* two, at the start, at the end, and the issuer https://host/auth/realms/foo.
IssuerPrefixes ==
    {EmptyString, <<"h">>, <<"h", "/", "a", "u", "t", "h">>,
     <<"h", "t", "t", "p", "s", ":", "/", "/", "h", "o", "s", "t">>}

IssuerMiddles == {AuthMarker, <<"/">>, AuthMarker \o <<"x">> \o AuthMarker}

IssuerRealms ==
    {EmptyString, <<"r">>, <<"a", "u", "t", "h", "/">>,
     <<"r", "e", "a", "l", "m", "s", "/", "f", "o", "o">>}

URLIssuers ==
    {pre \o mid \o realm :
        pre \in IssuerPrefixes, mid \in IssuerMiddles, realm \in IssuerRealms}

\* The object a by-id answer holds, or no JSON at all.
AccountBodies ==
    {[valid |-> FALSE, items |-> <<>>]}
    \cup {[valid |-> TRUE, items |-> <<a>>] : a \in UserRecords \cup {ZeroAccount}}

LookupExchanges(cfg) ==
    [kind : {"response"}, status : Statuses, body : AccountBodies, readErr : BOOLEAN]
    \cup {[kind |-> "requestError"], [kind |-> "doPanic"],
          [kind |-> "doError", status |-> 302]}
    \cup (IF UsesCertKey(cfg) THEN {[kind |-> "clientError"]} ELSE {})

LookupTypes == {<<"u", "s", "e", "r", "s">>, <<"g", "r", "o", "u", "p", "s">>}

LookupIDs == {<<"1">>}

NoSearch == [called |-> FALSE]

NoDerived == [called |-> FALSE]

NoLookup == [called |-> FALSE]

SearchInit ==
    /\ search = NoSearch
    /\ derived = NoDerived
    /\ lookup = NoLookup

\* One call of getSearchURL.
GetSearchURL ==
    /\ search = NoSearch /\ derived = NoDerived /\ lookup = NoLookup
    /\ \E issuer \in URLIssuers :
          derived' = [called |-> TRUE, issuer |-> issuer, res |-> getSearchURL(issuer)]
    /\ UNCHANGED <<search, lookup>>
    /\ UNCHANGED notSearch

\* One call of getFromKeyCloakByID.
GetFromKeyCloakByID ==
    /\ search = NoSearch /\ derived = NoDerived /\ lookup = NoLookup
    /\ \E principalID \in LookupIDs, searchType \in LookupTypes, cfg \in KeycloakConfigs :
          \E r \in LookupExchanges(cfg) :
             lookup' = [called |-> TRUE, principalID |-> principalID,
                        searchType |-> searchType, config |-> cfg, resp |-> r,
                        res |-> getFromKeyCloakByID(principalID, searchType, cfg, r)]
    /\ UNCHANGED <<search, derived>>
    /\ UNCHANGED notSearch

\* One call of searchPrincipals.
SearchPrincipalsKeycloak ==
    /\ search = NoSearch /\ derived = NoDerived /\ lookup = NoLookup
    /\ \E searchTerm \in SearchTerms, principalType \in SearchKinds,
          cfg \in KeycloakConfigs :
          \E rU \in Exchanges(cfg, UserRecords), rG \in Exchanges(cfg, GroupRecords) :
             search' = [called |-> TRUE, searchTerm |-> searchTerm,
                        principalType |-> principalType, config |-> cfg,
                        res |-> searchPrincipals(searchTerm, principalType, cfg, rU, rG)]
    /\ UNCHANGED <<derived, lookup>>
    /\ UNCHANGED notSearch

SearchNext ==
    \/ SearchPrincipalsKeycloak
    \/ GetSearchURL
    \/ GetFromKeyCloakByID

----------------------------------------------------------------------------
(* Specifications *)

\* Every specification starts with no call made yet.
Init ==
    /\ LoginInit
    /\ ResolverInit
    /\ GroupsInit
    /\ SearchInit

SpecLogin == Init /\ [][LoginNext]_vars

SpecResolver == Init /\ [][ResolverNext]_vars

SpecGroups == Init /\ [][GroupsNext]_vars

SpecSearch == Init /\ [][SearchNext]_vars

----------------------------------------------------------------------------
(* LoginUser: properties *)

IsCheckAccess(c) == c.fn = "CheckAccess"

CheckAccessCalls == SelectSeq(calls, IsCheckAccess)

Allow == [allowed |-> TRUE, err |-> Nil]

Deny == [allowed |-> FALSE, err |-> Nil]

Called(fn) == \E i \in DOMAIN calls : calls[i].fn = fn

Succeeded(fn) == \E i \in DOMAIN calls : calls[i].fn = fn /\ calls[i].out = Nil

\* C1: LoginUser returns a non-empty access token only if CheckAccess,
\* called with the configured mode and allow-list and the resolved user and
\* group principals, answered allowed with no error; when it answers deny,
\* LoginUser returns the Unauthorized error and an empty access token.
C1_TokenOnlyIfAllowed ==
    pc = "done" =>
        LET ca == CheckAccessCalls
        IN  /\ ret.token # EmptyString =>
                  /\ Len(ca) >= 1
                  /\ ca[Len(ca)].out = Allow
                  /\ ca[Len(ca)].args = <<config.AccessMode, config.AllowedPrincipalIDs,
                                          ret.user.Name, ret.groups>>
            /\ (Len(ca) >= 1 /\ ca[Len(ca)].out = Deny) =>
                  /\ ret.err = "Unauthorized"
                  /\ ret.token = EmptyString

\* The case of C1: mode required, allow-list [user a], user b logs in, the
\* evaluator denies, and LoginUser has returned.
C1_Witness ==
    /\ pc = "done"
    /\ config # NoConfig
    /\ config.AccessMode = "required"
    /\ config.AllowedPrincipalIDs
          = <<Name \o Underscore \o UserType \o SchemeSep \o <<"a">> >>
    /\ Len(CheckAccessCalls) = 1
    /\ CheckAccessCalls[1].out = Deny
    /\ CheckAccessCalls[1].args[3]
          = Name \o Underscore \o UserType \o SchemeSep \o <<"b">>
    /\ ret.err = "Unauthorized"
    /\ ret.token = EmptyString

\* C2 as stated: in every run of LoginUser, CheckAccess is evaluated exactly
\* once, after the principals have been built and before any access token
\* is returned.
C2_EvaluatedOnceEveryRun ==
    (pc = "done" /\ Called("LoginUser")) =>
        /\ Len(CheckAccessCalls) = 1
        /\ Succeeded("Claims")

\* C2 as amended: no run of LoginUser evaluates CheckAccess more than once;
\* a run that gets as far as building the principals (its claims decoded)
\* evaluates it exactly once, after the user and group principals have been
\* built and before anything is returned; a run that fails at an earlier
\* step returns without evaluating it; an access token is returned only
\* after the evaluation.
C2_EvaluatedOnceAfterResolution ==
    LET ca == CheckAccessCalls
    IN  /\ Len(ca) <= 1
        /\ (pc = "done" /\ Succeeded("Claims")) => Len(ca) = 1
        /\ (pc = "done" /\ ~Succeeded("Claims")) => Len(ca) = 0
        /\ Len(ca) = 1 =>
              /\ calls[Len(calls)].fn = "CheckAccess"
              /\ Succeeded("Claims")
              /\ userPrincipal = [userToPrincipal(userInfo, claimInfo) EXCEPT !.Me = TRUE]
              /\ Len(groupPrincipals) = Len(claimInfo.Groups)
              /\ ca[1].args[3] = userPrincipal.Name
              /\ ca[1].args[4] = groupPrincipals
        /\ pc # "done" => ret = NoRet /\ Len(ca) = 0
        /\ (pc = "done" /\ ret.token # EmptyString) => Len(ca) = 1

\* A login that passed the gate once and was handed its access token.
C2_Witness ==
    /\ pc = "done"
    /\ Len(CheckAccessCalls) = 1
    /\ Len(groupPrincipals) = 2
    /\ ret.token # EmptyString

\* C3: when the exchange response carries neither an id_token string nor an
\* access_token string, LoginUser returns a non-nil error and makes no call
\* to the verifier, the user-info endpoint or the access gate.
C3_MissingTokenFails ==
    (pc = "done" /\ oauth2Token # NoToken
       /\ ~oauth2Token.id_token /\ ~oauth2Token.access_token) =>
        /\ ret.err # Nil
        /\ ~Called("Verify") /\ ~Called("UserInfo") /\ ~Called("CheckAccess")

\* A login is a success only when the access gate answered allowed.
LoginFailed == ~(Len(CheckAccessCalls) >= 1 /\ CheckAccessCalls[1].out = Allow)

\* C4: whenever LoginUser ends at a failing step, the returned access token
\* is empty and the returned error is non-nil.
C4_NoPartialSuccess ==
    (pc = "done" /\ LoginFailed) => (ret.token = EmptyString /\ ret.err # Nil)

\* C13: the display name of the user principal LoginUser builds is the
\* claims' name when that is not empty, and the user's email when it is.
C13_DisplayNameFallsBackToEmail ==
    pc \in {"CheckAccess", "done"} /\ Succeeded("Claims") =>
        /\ claimInfo.Name = EmptyString => userPrincipal.DisplayName = userInfo.Email
        /\ claimInfo.Name # EmptyString => userPrincipal.DisplayName = claimInfo.Name

\* A user with no name and the email a@b.com was resolved.
C13_Witness ==
    /\ pc = "CheckAccess"
    /\ claimInfo.Name = EmptyString
    /\ userInfo.Email = <<"a", "@", "b", ".", "c", "o", "m">>
    /\ userPrincipal.DisplayName = <<"a", "@", "b", ".", "c", "o", "m">>

\* The calls to the identity provider that may end a login before the
\* user info is fetched.
ProtocolCalls == {"NewProvider", "Exchange", "Verify"}

\* C14: the user info is fetched, and the access gate evaluated, only after
\* the extracted token was verified with success; a failure of discovery,
\* exchange or verification is the last call of the login.
C14_VerifiedBeforeUserInfo ==
    /\ \A i \in DOMAIN calls :
          calls[i].fn \in {"UserInfo", "Claims", "CheckAccess"} =>
              \E j \in 1..(i - 1) :
                  /\ calls[j].fn = "Verify" /\ calls[j].out = Nil
                  /\ \E k \in 1..(j - 1) : calls[k].fn = "Exchange" /\ calls[k].out = Nil
    /\ \A i \in DOMAIN calls :
          (calls[i].fn \in ProtocolCalls /\ calls[i].out # Nil) =>
              (i = Len(calls) /\ pc = "done" /\ ret.err = calls[i].out)
    /\ Called("Verify") => rawToken # EmptyString

\* A login whose token was verified went on to the user info and the gate.
C14_Witness ==
    /\ pc = "done"
    /\ Succeeded("Verify")
    /\ Called("UserInfo")
    /\ Called("CheckAccess")

----------------------------------------------------------------------------
(* Principal resolver: properties *)

\* C5: the id of every principal built by userToPrincipal, groupToPrincipal
\* or SearchPrincipals from a kind (user or group) and an external id is
\* parsed by GetPrincipal, with no error, into that kind and that external
\* id.
C5_RoundTrip ==
    (built # NoBuilt /\ got # NoGot /\ built.kind \in {UserType, GroupType}) =>
        /\ got.id = built.p.Name
        /\ got.res.err = Nil
        /\ got.res.principalType = built.kind
        /\ got.res.externalID = built.externalID

\* A user principal whose subject holds all three separators went through
\* GetPrincipal.
C5_Witness ==
    /\ built # NoBuilt /\ got # NoGot
    /\ built.fn = "userToPrincipal"
    /\ built.externalID = <<":", "_", "/">>
    /\ got.res.externalID = <<":", "_", "/">>

\* The shape "provider_kind://external": the split on the first ':' and the
\* split of its first part on the first '_' both give two non-empty parts,
\* the external id being what follows the "//".
WellShaped(id) ==
    LET parts == SplitN2(id, ":")
    IN  /\ Len(parts) = 2
        /\ parts[1] # EmptyString
        /\ TrimPrefix(parts[2], <<"/", "/">>) # EmptyString
        /\ LET parts2 == SplitN2(parts[1], "_")
           IN  /\ Len(parts2) = 2
               /\ parts2[1] # EmptyString
               /\ parts2[2] \in {UserType, GroupType}

ExampleID ==
    Name \o Underscore \o UserType \o SchemeSep \o <<"a", "b", "c", "1", "2", "3">>

\* C6: GetPrincipal returns an error for every identifier that is not of
\* the shape "provider_kind://external" with three non-empty parts and a
\* kind of user or group; it accepts "oidc_user://abc123" as (user, abc123).
C6_ParsingFailsClosed ==
    got # NoGot =>
        /\ ~WellShaped(got.id) => got.res.err # Nil
        /\ got.id = ExampleID =>
              /\ got.res.err = Nil
              /\ got.res.principalType = UserType
              /\ got.res.externalID = <<"a", "b", "c", "1", "2", "3">>

\* C16: on a user principal, toPrincipalFromToken sets Me iff the name, the
\* login name and the kind of the principal are those of the token's user
\* principal, then takes the login name and display name of the token, and
\* otherwise leaves both as they were; on a group principal it sets MemberOf
\* to the answer of IsMemberOf and leaves Me as it was.
C16_SelfAndMembership ==
    resolved.called =>
        LET mine == resolved.token.UserPrincipal
            princ == resolved.princ
            out == resolved.out
        IN  /\ resolved.principalType = UserType =>
                  /\ out.Me <=> /\ princ.Name = mine.Name
                                /\ princ.LoginName = mine.LoginName
                                /\ out.PrincipalType = mine.PrincipalType
                  /\ out.Me => /\ out.DisplayName = mine.DisplayName
                               /\ out.LoginName = mine.LoginName
                  /\ ~out.Me => /\ out.DisplayName = princ.DisplayName
                                /\ out.LoginName = princ.LoginName
                  /\ out.PrincipalType = UserType
                  /\ out.MemberOf = princ.MemberOf
            /\ resolved.principalType = GroupType =>
                  /\ out.MemberOf = resolved.isMemberOf
                  /\ out.Me = princ.Me
                  /\ out.PrincipalType = GroupType
            /\ out.Name = princ.Name

\* The caller's own principal, under another display name, was recognised
\* and given the display name of the token.
C16_Witness ==
    /\ resolved.called
    /\ resolved.principalType = UserType
    /\ resolved.princ.DisplayName # resolved.token.UserPrincipal.DisplayName
    /\ ~resolved.princ.Me
    /\ resolved.out.Me
    /\ resolved.out.DisplayName = resolved.token.UserPrincipal.DisplayName

\* The kinds GetPrincipal accepts.
KnownKinds == {UserType, GroupType}

\* C17: for the id oidc_<kind>://<externalID> of a user or a group,
\* GetPrincipal returns a principal with that id and that kind, and with Me
\* set when the id is that of the token's user principal.
C17_IdentityPreserved ==
    (got # NoGot
     /\ \E kind \in KnownKinds, ext \in ExternalIDs \ {EmptyString} :
           got.id = Name \o Underscore \o kind \o SchemeSep \o ext) =>
        /\ got.res.err = Nil
        /\ got.res.p.Name = got.id
        /\ got.res.p.PrincipalType = got.res.principalType
        /\ got.id = Name \o Underscore \o got.res.principalType \o SchemeSep
                       \o got.res.externalID
        /\ got.id = got.token.UserPrincipal.Name => got.res.p.Me

\* C19: SearchPrincipals returns, for every term and kind, no error and one
\* principal: of the kind asked for (user when none is), with the id
\* oidc_<kind>://<term>, the term as display name and login name, and
\* neither Me nor MemberOf set.
C19_SearchAlwaysAnswersOne ==
    found.called =>
        LET kind == IF found.principalType = EmptyString
                    THEN UserType ELSE found.principalType
        IN  /\ found.err = Nil
            /\ Len(found.principals) = 1
            /\ found.principals[1].PrincipalType = kind
            /\ found.principals[1].Name =
                  <<"o", "i", "d", "c", "_">> \o kind \o <<":", "/", "/">>
                      \o found.searchValue
            /\ found.principals[1].DisplayName = found.searchValue
            /\ found.principals[1].LoginName = found.searchValue
            /\ found.principals[1].Provider = <<"o", "i", "d", "c">>
            /\ ~found.principals[1].Me
            /\ ~found.principals[1].MemberOf

\* A search with no kind, for a term that holds the separators of an id.
C19_Witness ==
    /\ found.called
    /\ found.principalType = EmptyString
    /\ found.searchValue = <<":", "_", "/">>
    /\ found.principals[1].PrincipalType = UserType

----------------------------------------------------------------------------
(* Keycloak client: properties of the flattening *)

\* The descendants of g, each named by its path of list positions.
RECURSIVE AllPaths(_)
AllPaths(g) ==
    UNION {{<<i>>} \cup {<<i>> \o q : q \in AllPaths(g.Subgroups[i])} :
              i \in DOMAIN g.Subgroups}

\* The descendants reached through the first SubgroupCap entries of every
\* list on the way.
FirstPaths(g) ==
    {p \in AllPaths(g) : \A k \in DOMAIN p : p[k] <= SubgroupCap}

\* Depth-first pre-order of paths: an ancestor comes before its descendants,
\* and an earlier sibling's subtree before a later sibling's.
LexLess(p, q) ==
    \E k \in 1..Len(q) :
        /\ k <= Len(p) + 1
        /\ \A j \in 1..(k - 1) : p[j] = q[j]
        /\ (k = Len(p) + 1 \/ p[k] < q[k])

Rank(S, p) == Cardinality({q \in S : LexLess(q, p)}) + 1

\* seq holds exactly the groups at the paths S of g, once each, in
\* depth-first pre-order, each with its own id, name and subgroups.
IsPreOrderOf(seq, g, S) ==
    /\ Len(seq) = Cardinality(S)
    /\ \A p \in S : seq[Rank(S, p)] = NodeAt(g, p)

WithinCap(g) ==
    \A p \in {<<>>} \cup AllPaths(g) : Len(NodeAt(g, p).Subgroups) <= SubgroupCap

\* C7: when no subgroup list of the tree is longer than the cap, getSubGroups
\* returns all descendants of the group, once per occurrence, in depth-first
\* pre-order, and not the group itself.
C7_FullClosureWithinCap ==
    (subGroups.returned /\ WithinCap(group)) =>
        IsPreOrderOf(subGroups.groups, group, AllPaths(group))

\* A list of exactly SubgroupCap subgroups, the last with a subgroup of its
\* own, was flattened.
C7_Witness ==
    /\ subGroups.returned
    /\ Len(group.Subgroups) = SubgroupCap
    /\ Len(group.Subgroups[SubgroupCap].Subgroups) = 1
    /\ Len(subGroups.groups) = SubgroupCap + 1

\* C8: at every level getSubGroups keeps the first SubgroupCap entries of a
\* list, in order, with their flattened descendants, and drops every later
\* entry with everything below it.
C8_PerLevelCap ==
    subGroups.returned =>
        IsPreOrderOf(subGroups.groups, group, FirstPaths(group))

\* A list one longer than the cap was flattened: its entry at the cap has a
\* subgroup, which is kept, and its entry past the cap has one, which is
\* dropped with it.
C8_Witness ==
    /\ subGroups.returned
    /\ Len(group.Subgroups) = SubgroupCap + 1
    /\ Len(group.Subgroups[SubgroupCap].Subgroups) = 1
    /\ Len(group.Subgroups[SubgroupCap + 1].Subgroups) = 1
    /\ Len(subGroups.groups) = SubgroupCap + 1

----------------------------------------------------------------------------
(* Keycloak client: properties of searchPrincipals *)

HasAuthMarker(issuer) ==
    \E i \in 1..Len(issuer) :
        i + Len(AuthMarker) - 1 <= Len(issuer)
        /\ SubSeq(issuer, i, i + Len(AuthMarker) - 1) = AuthMarker

\* C11: when the issuer holds no "/auth/", searchPrincipals returns an error
\* (that of getSearchURL) and sends no request to the directory.
C11_NoMarkerIsAnError ==
    (search.called /\ ~HasAuthMarker(search.config.Issuer)) =>
        /\ ~search.res.panicked
        /\ search.res.err # NoError
        /\ search.res.exchanges = <<>>

\* The exchange brought a response of the given status from the directory.
Answered(ex, status) == ex.resp.kind = "response" /\ ex.resp.status = status

\* C9: a 401 response to the users search or to the groups search makes
\* searchPrincipals return an empty result and no error, for every kind,
\* also when the users search had found accounts before.
C9_UnauthorizedIsEmpty ==
    (search.called /\ \E i \in DOMAIN search.res.exchanges :
                         Answered(search.res.exchanges[i], 401)) =>
        /\ ~search.res.panicked
        /\ search.res.accounts = <<>>
        /\ search.res.err = NoError

\* A search of every kind found two users and then got a 401 from the
\* groups search.
C9_Witness ==
    /\ search.called
    /\ search.principalType = EmptyString
    /\ Len(search.res.exchanges) = 2
    /\ Answered(search.res.exchanges[1], 200)
    /\ Len(search.res.exchanges[1].resp.body.items) = 2
    /\ search.res.exchanges[2].endpoint = "groups"
    /\ Answered(search.res.exchanges[2], 401)
    /\ search.res.accounts = <<>>
    /\ search.res.err = NoError

\* C10: a response whose status is neither 2xx nor 401, to the users or to
\* the groups search, makes searchPrincipals return the request error that
\* carries that status.
C10_OtherStatusIsRequestError ==
    search.called =>
        \A i \in DOMAIN search.res.exchanges :
            LET r == search.res.exchanges[i].resp
            IN  (r.kind = "response" /\ r.status \notin 200..299 /\ r.status # 401) =>
                    /\ ~search.res.panicked
                    /\ search.res.err.msg = "GET request failed"
                    /\ search.res.err.status = r.status

\* The places "/auth/" starts at in an issuer.
Occurrences(issuer) ==
    {i \in 1..Len(issuer) :
        i + Len(AuthMarker) - 1 <= Len(issuer)
        /\ SubSeq(issuer, i, i + Len(AuthMarker) - 1) = AuthMarker}

ExampleIssuer ==
    <<"h", "t", "t", "p", "s", ":", "/", "/", "h", "o", "s", "t">> \o AuthMarker
        \o <<"r", "e", "a", "l", "m", "s", "/", "f", "o", "o">>

\* C12, as stated: for an issuer <prefix>/auth/<realmPath>, getSearchURL
\* returns <prefix>/admin/<realmPath>, the "/auth/" replaced.
C12_MarkerReplaced ==
    (derived.called /\ Occurrences(derived.issuer) # {}) =>
        /\ ~derived.res.panicked
        /\ \E i \in Occurrences(derived.issuer) :
              derived.res.url =
                  SubSeq(derived.issuer, 1, i - 1) \o <<"/">> \o AdminSegment
                      \o SubSeq(derived.issuer, i + Len(AuthMarker), Len(derived.issuer))

\* C12, amended: for an issuer <prefix>/auth/<realmPath> that holds "/auth/"
\* once, getSearchURL returns <prefix>/auth/admin/<realmPath>: the marker is
\* kept and "admin/" put in after it.
C12_MarkerKept ==
    (derived.called /\ Cardinality(Occurrences(derived.issuer)) = 1) =>
        LET i == CHOOSE j \in Occurrences(derived.issuer) : TRUE
        IN  /\ ~derived.res.panicked
            /\ derived.res.url =
                  SubSeq(derived.issuer, 1, i + Len(AuthMarker) - 1) \o AdminSegment
                      \o SubSeq(derived.issuer, i + Len(AuthMarker), Len(derived.issuer))

\* The search base of https://host/auth/realms/foo was derived.
C12_Witness ==
    /\ derived.called
    /\ derived.issuer = ExampleIssuer
    /\ derived.res.url =
          <<"h", "t", "t", "p", "s", ":", "/", "/", "h", "o", "s", "t">> \o AuthMarker
              \o AdminSegment \o <<"r", "e", "a", "l", "m", "s", "/", "f", "o", "o">>

Requested(endpoint) ==
    \E i \in DOMAIN search.res.exchanges : search.res.exchanges[i].endpoint = endpoint

UsersDue == search.principalType \in {EmptyString, UserType}

GroupsDue == search.principalType \in {EmptyString, GroupType}

\* The request was answered, not with a 401, and its body read and decoded.
WentThrough(ex) ==
    /\ ex.resp.kind = "response"
    /\ ex.resp.status # 401
    /\ ex.resp.status \in {200, 201} \/ ~ex.resp.readErr
    /\ ex.resp.body.valid

UsersFirst ==
    /\ Len(search.res.exchanges) <= 2
    /\ \A i, j \in DOMAIN search.res.exchanges :
          (search.res.exchanges[i].endpoint = "users"
           /\ search.res.exchanges[j].endpoint = "groups") => i < j

\* The flattened subgroups of g, by their paths.
Flattened(g) ==
    [k \in 1..Cardinality(FirstPaths(g)) |->
        NodeAt(g, CHOOSE p \in FirstPaths(g) : Rank(FirstPaths(g), p) = k)]

TaggedGroup(g) == Account(g.ID, EmptyString, g.Name, GroupType)

RECURSIVE TaggedGroups(_)
TaggedGroups(groups) ==
    IF groups = <<>>
    THEN <<>>
    ELSE <<TaggedGroup(Head(groups))>>
             \o [k \in 1..Len(Flattened(Head(groups))) |->
                    TaggedGroup(Flattened(Head(groups))[k])]
             \o TaggedGroups(Tail(groups))

\* The records of the answer to the request sent to endpoint.
Records(endpoint) ==
    LET i == CHOOSE j \in DOMAIN search.res.exchanges :
                 search.res.exchanges[j].endpoint = endpoint
    IN  search.res.exchanges[i].resp.body.items

ExpectedAccounts ==
    (IF UsersDue
     THEN [k \in 1..Len(Records("users")) |->
              [Records("users")[k] EXCEPT !.Type = UserType]]
     ELSE <<>>)
    \o (IF GroupsDue THEN TaggedGroups(Records("groups")) ELSE <<>>)

\* Every request due was sent and went through, and no error came back.
Succeeded15 ==
    /\ ~search.res.panicked
    /\ search.res.err = NoError
    /\ UsersDue => Requested("users")
    /\ GroupsDue => Requested("groups")
    /\ \A i \in DOMAIN search.res.exchanges : WentThrough(search.res.exchanges[i])

----------------------------------------------------------------------------
(* Keycloak client: properties of getFromKeyCloakByID *)

\* C18: getFromKeyCloakByID returns an error, and not the empty account with
\* a nil error, when the issuer holds no "/auth/" and when the directory
\* answers with a status outside 200..299.
C18_LookupFailuresAreErrors ==
    (lookup.called
     /\ \/ Occurrences(lookup.config.Issuer) = {}
        \/ \E i \in DOMAIN lookup.res.exchanges :
              /\ lookup.res.exchanges[i].resp.kind = "response"
              /\ lookup.res.exchanges[i].resp.status \notin 200..299) =>
        /\ ~lookup.res.panicked
        /\ lookup.res.err # NoError

====
